---- MODULE Spec2Model ----
(***************************************************************************)
(* Model of src/app.py, the Streamlit GDP-per-capita dashboard script.     *)
(*                                                                         *)
(* The script is re-executed top to bottom on every widget change.  Its    *)
(* state is the CSV file (raw), the st.cache_data cache of load_data, the  *)
(* script variables (df, countries, year_range, top_n, filtered, cagr_df,  *)
(* latest_year, map_df, top_cagr) and the position of the run (pc).        *)
(*                                                                         *)
(* Numbers: GDP values and years are integers.  A float the script         *)
(* computes is kept exactly: a growth figure is the fraction n/d, a CAGR   *)
(* is the triple (end, start, years) standing for                          *)
(* (end/start)^(1/years) - 1, and NaN and inf are their own values.        *)
(***************************************************************************)
EXTENDS Integers, Sequences, FiniteSets

VARIABLES raw, cache, df, countries, year_range, top_n, filtered, cagr_df,
          avg_cagr, latest_year, map_df, top_cagr, pc, error, sort_impl, prev

vars == <<raw, cache, df, countries, year_range, top_n, filtered, cagr_df,
          avg_cagr, latest_year, map_df, top_cagr, pc, error, sort_impl, prev>>

(***************************************************************************)
(* Bounds of the model.                                                    *)
(***************************************************************************)
\* rows of the CSV file
MaxRows == 3
\* years are 1..MaxYear
MaxYear == 3
\* GDP values are 0..MaxVal
MaxVal == 1
\* the Top N slider offers MinTopN..MaxTopN (5..25 in the script, scaled down)
MinTopN == 1
MaxTopN == 2

\* The countries of the file, in the order sorted() and groupby() give them.
CountryOrder == <<"A", "B">>

Countries == {CountryOrder[i] : i \in 1..Len(CountryOrder)}

Years == 1..MaxYear

Values == 0..MaxVal

CountryRank(c) == CHOOSE i \in 1..Len(CountryOrder) : CountryOrder[i] = c

(***************************************************************************)
(* Floats.                                                                 *)
(***************************************************************************)
NaN == [k |-> "nan", n |-> 0, d |-> 0]

Inf == [k |-> "inf", n |-> 0, d |-> 0]

Num(n, d) == [k |-> "num", n |-> n, d |-> d]

\* a / b - 1 on float64 with b >= 0 and a >= 0: x/0 is inf, 0/0 is NaN
DivMinusOne(a, b) ==
    IF b = 0 THEN (IF a = 0 THEN NaN ELSE Inf) ELSE Num(a - b, b)

\* x * 100 on float64
Times100(x) == IF x.k = "num" THEN Num(x.n * 100, x.d) ELSE x

\* Series.mean() of no value is NaN; of some values it is their sum over
\* their count, kept as the values it is taken of
MeanNaN == [k |-> "nan", of |-> <<>>]

NumEq(x, y) == x.k = "num" /\ y.k = "num" /\ x.n * y.d = y.n * x.d

(***************************************************************************)
(* The CSV file: a cell is null (empty), an integer, a number with a       *)
(* fractional part (v + 0.5) or text that is no number.                    *)
(***************************************************************************)
Cell(k, v) == [k |-> k, v |-> v]

NullCell == Cell("null", 0)

TextCell == Cell("text", 0)

NullCountry == "NaN"

RawRow(c, y, v) == [Country |-> c, Year |-> y, GDP_per_capita_USD |-> v]

WellFormedRows ==
    {RawRow(c, Cell("int", y), Cell("int", v)) :
        c \in Countries, y \in Years, v \in Values}

MalformedRows ==
    {RawRow(NullCountry, Cell("int", 1), Cell("int", 1)),
     RawRow("A", NullCell, Cell("int", 1)),
     RawRow("A", Cell("int", 1), NullCell),
     RawRow("A", TextCell, Cell("int", 1)),
     RawRow("A", TextCell, NullCell),
     RawRow("A", Cell("frac", 1), Cell("int", 1))}

SeqsUpTo(S, n) == UNION {[1..m -> S] : m \in 0..n}

(***************************************************************************)
(* load_data (lines 15-22).                                                *)
(***************************************************************************)
\* pd.read_csv infers the dtype of the Year column from every cell of it
YearDtype(rows) ==
    IF \E i \in 1..Len(rows) : rows[i].Year.k = "text" THEN "object"
    ELSE IF \E i \in 1..Len(rows) : rows[i].Year.k \in {"frac", "null"}
         THEN "float64"
         ELSE "int64"

NoNull(r) ==
    /\ r.Country # NullCountry
    /\ r.Year.k # "null"
    /\ r.GDP_per_capita_USD.k # "null"

\* df.dropna()
DropNa(rows) == SelectSeq(rows, NoNull)

\* astype(int) raises ValueError on an object column (its cells are strings)
\* holding a string that int() does not parse
AstypeRaises(rows, dtype) ==
    /\ dtype = "object"
    /\ \E i \in 1..Len(rows) : rows[i].Year.k \in {"text", "frac"}

\* astype(int) of one cell of a numeric column: an integer stays, v + 0.5 is
\* truncated to v
AstypeInt(cell) == cell.v

Astype(rows) ==
    [i \in 1..Len(rows) |->
        [Country |-> rows[i].Country,
         Year |-> AstypeInt(rows[i].Year),
         GDP_per_capita_USD |-> rows[i].GDP_per_capita_USD.v]]

\* the order of sort_values(["Country", "Year"])
KeyLess(r, s) ==
    \/ CountryRank(r.Country) < CountryRank(s.Country)
    \/ r.Country = s.Country /\ r.Year < s.Year

\* r put behind every row of the sorted s that is not greater than it
InsertSorted(s, r) ==
    LET k == Cardinality({i \in 1..Len(s) : ~KeyLess(r, s[i])})
    IN  SubSeq(s, 1, k) \o <<r>> \o SubSeq(s, k + 1, Len(s))

RECURSIVE SortValues(_)
\* df.sort_values(["Country", "Year"]): a sort on several columns is stable
SortValues(rows) ==
    IF rows = <<>> THEN <<>>
    ELSE InsertSorted(SortValues(SubSeq(rows, 1, Len(rows) - 1)), rows[Len(rows)])

SetMax(S) == CHOOSE x \in S : \A y \in S : y <= x

SetMin(S) == CHOOSE x \in S : \A y \in S : x <= y

\* groupby("Country")[value].pct_change() * 100 of row i: against the row of
\* the same country before it in the frame
PctChange(rows, i) ==
    LET before == {j \in 1..(i - 1) : rows[j].Country = rows[i].Country}
    IN  IF before = {} THEN NaN
        ELSE Times100(DivMinusOne(rows[i].GDP_per_capita_USD,
                                  rows[SetMax(before)].GDP_per_capita_USD))

Annotate(rows) ==
    [i \in 1..Len(rows) |->
        [Country |-> rows[i].Country,
         Year |-> rows[i].Year,
         GDP_per_capita_USD |-> rows[i].GDP_per_capita_USD,
         YoY_Growth |-> PctChange(rows, i)]]

\* the body of load_data: the frame it returns, or the error it raises
load_data(file) ==
    LET clean == DropNa(file)
    IN  IF AstypeRaises(clean, YearDtype(file))
        THEN [error |-> "ValueError", df |-> <<>>]
        ELSE [error |-> "", df |-> Annotate(SortValues(Astype(clean)))]

(***************************************************************************)
(* The script's variables before a run assigns them.                       *)
(***************************************************************************)
NoCache == [hit |-> FALSE, df |-> <<>>]

NoRun ==
    [valid |-> FALSE, df |-> <<>>, countries |-> {}, year_range |-> <<0, 0>>,
     top_n |-> 0, filtered |-> <<>>, cagr_df |-> <<>>, avg_cagr |-> MeanNaN,
     latest_year |-> NaN, map_df |-> <<>>, top_cagr |-> <<>>]

Unassigned ==
    /\ df = <<>>
    /\ countries = {}
    /\ year_range = <<0, 0>>
    /\ top_n = 0
    /\ filtered = <<>>
    /\ cagr_df = <<>>
    /\ avg_cagr = MeanNaN
    /\ latest_year = NaN
    /\ map_df = <<>>
    /\ top_cagr = <<>>
    /\ error = ""

(***************************************************************************)
(* Line 24, df = load_data(): st.cache_data runs the body once and hands   *)
(* out the cached frame afterwards; an exception is not cached and ends    *)
(* the run.                                                                *)
(***************************************************************************)
LoadData ==
    /\ pc = "load"
    /\ IF cache.hit
       THEN /\ df' = cache.df
            /\ pc' = "sidebar"
            /\ UNCHANGED <<cache, error>>
       ELSE LET res == load_data(raw)
            IN  IF res.error # ""
                THEN /\ pc' = "fault"
                     /\ error' = res.error
                     /\ UNCHANGED <<cache, df>>
                ELSE /\ cache' = [hit |-> TRUE, df |-> res.df]
                     /\ df' = res.df
                     /\ pc' = "sidebar"
                     /\ UNCHANGED error
    /\ UNCHANGED <<raw, countries, year_range, top_n, filtered, cagr_df,
                   avg_cagr, latest_year, map_df, top_cagr, sort_impl, prev>>

(***************************************************************************)
(* Lines 31-44, the sidebar.  sorted(df["Country"].unique()) and           *)
(* int(df.Year.min()) are evaluated first: on an empty frame the minimum   *)
(* is NaN and int() raises ValueError.  The widgets then hand back the     *)
(* caller's Selection; every country set and every pair of years is drawn  *)
(* (the filter expression is defined on all of them), and every n of       *)
(* MinTopN..MaxTopN.                                                       *)
(***************************************************************************)
Sidebar ==
    /\ pc = "sidebar"
    /\ IF df = <<>>
       THEN /\ pc' = "fault"
            /\ error' = "ValueError"
            /\ UNCHANGED <<countries, year_range, top_n>>
       ELSE /\ \E cs \in SUBSET Countries, lo \in Years, hi \in Years,
                  n \in MinTopN..MaxTopN :
                    /\ countries' = cs
                    /\ year_range' = <<lo, hi>>
                    /\ top_n' = n
            /\ pc' = "filter"
            /\ UNCHANGED error
    /\ UNCHANGED <<raw, cache, df, filtered, cagr_df, avg_cagr, latest_year,
                   map_df, top_cagr, sort_impl, prev>>

(***************************************************************************)
(* Lines 47-50, filtered = df[isin(countries) & between(lo, hi)].          *)
(***************************************************************************)
\* Series.isin
isin(c, cs) == c \in cs

\* between with inclusive="neither"
between_exclusive(y, lo, hi) == lo < y /\ y < hi

\* Series.between, inclusive on both sides
between(y, lo, hi) == lo <= y /\ y <= hi

\* the frame line 47 indexes
FilterSource == df

FilterRows(frame, cs, yr) ==
    LET keep(r) == isin(r.Country, cs) /\ between(r.Year, yr[1], yr[2])
    IN  SelectSeq(frame, keep)

\* indexing that narrows the frame itself (and the cached object with it)
IndexedInPlace(frame, result) == result

\* df[mask] builds a new frame: the indexed frame stays as it is
Indexed(frame, result) == frame

Filter ==
    /\ pc = "filter"
    /\ filtered' = FilterRows(FilterSource, countries, year_range)
    /\ df' = Indexed(df, filtered')
    /\ cache' = [cache EXCEPT !.df = Indexed(cache.df, filtered')]
    /\ pc' = "cagr"
    /\ UNCHANGED <<raw, countries, year_range, top_n, cagr_df, avg_cagr,
                   latest_year, map_df, top_cagr, error, sort_impl, prev>>

(***************************************************************************)
(* Lines 55-68, calculate_cagr and cagr_df.                                *)
(***************************************************************************)
\* the float (end / start) ** (1 / years) - 1
CagrNum(end, start, years) ==
    [k |-> "num", end |-> end, start |-> start, years |-> years]

CagrNaN == [k |-> "nan", end |-> 0, start |-> 0, years |-> 0]

\* calculate_cagr without the years > 0 test
calculate_cagr_any_span(group) ==
    LET start == group[1].GDP_per_capita_USD
        end == group[Len(group)].GDP_per_capita_USD
        years == group[Len(group)].Year - group[1].Year
    IN  IF start > 0 THEN CagrNum(end, start, years) ELSE CagrNaN

\* calculate_cagr reading its end value from the second row, iloc[1]
calculate_cagr_second_row(group) ==
    LET start == group[1].GDP_per_capita_USD
        end == group[IF Len(group) > 1 THEN 2 ELSE 1].GDP_per_capita_USD
        years == group[Len(group)].Year - group[1].Year
    IN  IF years > 0 /\ start > 0 THEN CagrNum(end, start, years) ELSE CagrNaN

calculate_cagr(group) ==
    LET start == group[1].GDP_per_capita_USD
        end == group[Len(group)].GDP_per_capita_USD
        years == group[Len(group)].Year - group[1].Year
    IN  IF years > 0 /\ start > 0 THEN CagrNum(end, start, years) ELSE CagrNaN

\* the rows of one group of groupby("Country"), in the frame's order
Group(frame, c) ==
    LET of(r) == r.Country = c
    IN  SelectSeq(frame, of)

\* the group keys, ascending, as groupby sorts them
GroupKeys(frame) ==
    LET present(c) == \E i \in 1..Len(frame) : frame[i].Country = c
    IN  SelectSeq(CountryOrder, present)

\* groupby("Country").apply(calculate_cagr).reset_index(name="CAGR")
Apply(frame) ==
    LET keys == GroupKeys(frame)
    IN  [i \in 1..Len(keys) |->
            [Country |-> keys[i], CAGR |-> calculate_cagr(Group(frame, keys[i]))]]

\* .dropna() of the result frame
DropNaN(res) ==
    LET isnum(r) == r.CAGR.k # "nan"
    IN  SelectSeq(res, isnum)

\* On a frame without rows apply() returns an empty DataFrame, not a Series,
\* and DataFrame.reset_index takes no keyword "name": line 66 raises TypeError.
Cagr ==
    /\ pc = "cagr"
    /\ IF filtered = <<>>
       THEN /\ pc' = "fault"
            /\ error' = "TypeError"
            /\ UNCHANGED cagr_df
       ELSE /\ cagr_df' = DropNaN(Apply(filtered))
            /\ pc' = "kpi"
            /\ UNCHANGED error
    /\ UNCHANGED <<raw, cache, df, countries, year_range, top_n, filtered,
                   avg_cagr, latest_year, map_df, top_cagr, sort_impl, prev>>

(***************************************************************************)
(* Lines 81-84, the KPI row: cagr_df.CAGR.mean() * 100 formatted with      *)
(* :.2f.  The mean of an empty column is NaN and formats as "nan%", no     *)
(* exception.                                                              *)
(***************************************************************************)
Mean(res) ==
    IF res = <<>> THEN MeanNaN
    ELSE [k |-> "num", of |-> [i \in 1..Len(res) |-> res[i].CAGR]]

Kpi ==
    /\ pc = "kpi"
    /\ avg_cagr' = Mean(cagr_df)
    /\ pc' = "map"
    /\ UNCHANGED <<raw, cache, df, countries, year_range, top_n, filtered,
                   cagr_df, latest_year, map_df, top_cagr, error, sort_impl,
                   prev>>

(***************************************************************************)
(* Lines 91-92, latest_year and map_df.                                    *)
(***************************************************************************)
\* the year of the frame's last row, filtered.iloc[-1]["Year"]
YearOfLastRow(frame) ==
    IF frame = <<>> THEN NaN ELSE Num(frame[Len(frame)].Year, 1)

\* filtered["Year"].max(): NaN on a frame without rows
YearMax(frame) ==
    IF frame = <<>> THEN NaN
    ELSE Num(SetMax({frame[i].Year : i \in 1..Len(frame)}), 1)

\* year == latest_year, elementwise: nothing equals NaN
YearEq(y, f) == f.k = "num" /\ y * f.d = f.n

Snapshot(frame, latest) ==
    LET at(r) == YearEq(r.Year, latest)
    IN  SelectSeq(frame, at)

Map ==
    /\ pc = "map"
    /\ latest_year' = YearMax(filtered)
    /\ map_df' = Snapshot(filtered, YearMax(filtered))
    /\ pc' = "rank"
    /\ UNCHANGED <<raw, cache, df, countries, year_range, top_n, filtered,
                   cagr_df, avg_cagr, top_cagr, error, sort_impl, prev>>

(***************************************************************************)
(* Line 124, top_cagr = cagr_df.sort_values("CAGR", ascending=False)       *)
(*                             .head(top_n).                               *)
(***************************************************************************)
RECURSIVE Pow(_, _)
Pow(b, e) == IF e = 0 THEN 1 ELSE b * Pow(b, e - 1)

\* x < y for two floats (end/start)^(1/years) - 1, start > 0 and years > 0
CagrLess(x, y) ==
    Pow(x.end, y.years) * Pow(y.start, x.years)
        < Pow(y.end, x.years) * Pow(x.start, y.years)

CagrEq(x, y) == ~CagrLess(x, y) /\ ~CagrLess(y, x)

\* where argsort puts item n among the already ordered s: the default kind,
\* "quicksort", promises no order among equal items.  "stable" is a build
\* whose sort keeps them in place (insertion sort on a short array),
\* "unstable" one that does not (here: equal items come out swapped).
Slot(vals, s, n, impl) ==
    IF impl = "stable"
    THEN Cardinality({i \in 1..Len(s) : ~CagrLess(vals[n], vals[s[i]])})
    ELSE Cardinality({i \in 1..Len(s) : CagrLess(vals[s[i]], vals[n])})

RECURSIVE ArgSort(_, _, _)
\* numpy argsort of the first n items of vals, ascending
ArgSort(vals, n, impl) ==
    IF n = 0 THEN <<>>
    ELSE LET s == ArgSort(vals, n - 1, impl)
             k == Slot(vals, s, n, impl)
         IN  SubSeq(s, 1, k) \o <<n>> \o SubSeq(s, k + 1, Len(s))

Reverse(s) == [i \in 1..Len(s) |-> s[Len(s) + 1 - i]]

\* pandas nargsort with ascending=False: the items are reversed, argsorted,
\* and the indexer is reversed again
nargsort(vals, impl) ==
    LET rev == Reverse(vals)
        p == ArgSort(rev, Len(rev), impl)
    IN  Reverse([i \in 1..Len(p) |-> Len(vals) + 1 - p[i]])

sort_values(res, impl) ==
    LET ix == nargsort([i \in 1..Len(res) |-> res[i].CAGR], impl)
    IN  [i \in 1..Len(res) |-> res[ix[i]]]

head(s, n) == SubSeq(s, 1, IF n < Len(s) THEN n ELSE Len(s))

Rank ==
    /\ pc = "rank"
    /\ top_cagr' = head(sort_values(cagr_df, sort_impl), top_n)
    /\ pc' = "done"
    /\ UNCHANGED <<raw, cache, df, countries, year_range, top_n, filtered,
                   cagr_df, avg_cagr, latest_year, map_df, error, sort_impl,
                   prev>>

(***************************************************************************)
(* A widget change re-executes the script from line 1 with no script       *)
(* variable assigned; only the cache of load_data lives on.  prev is not   *)
(* part of the program: it remembers the results of one earlier complete   *)
(* run, to compare later runs against.                                     *)
(***************************************************************************)
ThisRun ==
    [valid |-> TRUE, df |-> df, countries |-> countries,
     year_range |-> year_range, top_n |-> top_n, filtered |-> filtered,
     cagr_df |-> cagr_df, avg_cagr |-> avg_cagr, latest_year |-> latest_year,
     map_df |-> map_df, top_cagr |-> top_cagr]

Rerun ==
    /\ pc \in {"done", "fault"}
    /\ prev' \in {prev} \cup (IF pc = "done" THEN {ThisRun} ELSE {})
    /\ df' = <<>>
    /\ countries' = {}
    /\ year_range' = <<0, 0>>
    /\ top_n' = 0
    /\ filtered' = <<>>
    /\ cagr_df' = <<>>
    /\ avg_cagr' = MeanNaN
    /\ latest_year' = NaN
    /\ map_df' = <<>>
    /\ top_cagr' = <<>>
    /\ error' = ""
    /\ pc' = "load"
    /\ UNCHANGED <<raw, cache, sort_impl>>

(***************************************************************************)
(* Files of well-formed rows, already in the loader's order (a file in any *)
(* other order loads to the same frame, the sort being stable).            *)
(***************************************************************************)
RECURSIVE SortedFiles(_)
SortedFiles(n) ==
    IF n = 0 THEN {<<>>}
    ELSE LET shorter == SortedFiles(n - 1)
         IN  shorter \cup
             {Append(f, r) : <<f, r>> \in
                 {x \in shorter \X WellFormedRows :
                     /\ Len(x[1]) = n - 1
                     /\ x[1] = <<>> \/
                        ~KeyLess([Country |-> x[2].Country, Year |-> x[2].Year.v],
                                 [Country |-> x[1][Len(x[1])].Country,
                                  Year |-> x[1][Len(x[1])].Year.v])}}

(***************************************************************************)
(* The whole script, run after run, on three files: the example of the     *)
(* spec's section 8 (a duplicated row), two countries with the same growth *)
(* in a file that is not sorted, and a series starting at zero.            *)
(***************************************************************************)
Row(c, y, v) == RawRow(c, Cell("int", y), Cell("int", v))

SampleFiles ==
    {<<Row("A", 1, 1), Row("A", 3, 2), Row("B", 1, 1), Row("B", 1, 1)>>,
     <<Row("B", 2, 1), Row("A", 1, 1), Row("B", 3, 2), Row("A", 2, 2),
       Row("A", 3, 4)>>,
     <<Row("A", 1, 0), Row("A", 2, 1), Row("A", 3, 2), Row("B", 1, 2),
       Row("B", 3, 1)>>}

Init ==
    /\ raw \in SampleFiles
    /\ cache = NoCache
    /\ Unassigned
    /\ pc = "load"
    /\ sort_impl \in {"stable", "unstable"}
    /\ prev = NoRun

Next ==
    \/ LoadData
    \/ Sidebar
    \/ Filter
    \/ Cagr
    \/ Kpi
    \/ Map
    \/ Rank
    \/ Rerun

Spec == Init /\ [][Next]_vars

(***************************************************************************)
(* One run up to the CAGR frame.                                           *)
(***************************************************************************)
InitCagr ==
    /\ raw \in SortedFiles(MaxRows)
    /\ cache = NoCache
    /\ Unassigned
    /\ pc = "load"
    /\ sort_impl = "stable"
    /\ prev = NoRun

NextCagr ==
    \/ LoadData
    \/ Sidebar
    \/ Filter
    \/ Cagr

SpecCagr == InitCagr /\ [][NextCagr]_vars

(***************************************************************************)
(* The loader on its own: any file of at most MaxRows rows, malformed      *)
(* rows included.                                                          *)
(***************************************************************************)
InitLoad ==
    /\ raw \in SeqsUpTo(WellFormedRows \cup MalformedRows, MaxRows)
    /\ cache = NoCache
    /\ Unassigned
    /\ pc = "load"
    /\ sort_impl = "stable"
    /\ prev = NoRun

NextLoad == LoadData

SpecLoad == InitLoad /\ [][NextLoad]_vars

(***************************************************************************)
(* The snapshot on its own: lines 91-92 applied to every frame the filter  *)
(* can hand on (the loader's frames of at most MaxRows rows, the empty one *)
(* included).                                                              *)
(***************************************************************************)
InitSnap ==
    /\ raw = <<>>
    /\ cache = NoCache
    /\ df = <<>>
    /\ countries = {}
    /\ year_range = <<0, 0>>
    /\ top_n = 0
    /\ filtered \in {load_data(f).df : f \in SortedFiles(MaxRows)}
    /\ cagr_df = <<>>
    /\ avg_cagr = MeanNaN
    /\ latest_year = NaN
    /\ map_df = <<>>
    /\ top_cagr = <<>>
    /\ error = ""
    /\ pc = "map"
    /\ sort_impl = "stable"
    /\ prev = NoRun

NextSnap == Map

SpecSnap == InitSnap /\ [][NextSnap]_vars

(***************************************************************************)
(* The ranking on its own: line 124 applied to every CAGR frame of the     *)
(* aggregator's shape (one row per country, countries ascending, a defined *)
(* CAGR each), on a build of either kind.                                  *)
(***************************************************************************)
CagrValues ==
    {CagrNum(e, b, y) : e \in Values, b \in 1..MaxVal, y \in 1..(MaxYear - 1)}

CagrFrames ==
    {<<>>}
    \cup {<<[Country |-> c, CAGR |-> x]>> : c \in Countries, x \in CagrValues}
    \cup {<<[Country |-> CountryOrder[1], CAGR |-> x],
            [Country |-> CountryOrder[2], CAGR |-> y]>> :
                x \in CagrValues, y \in CagrValues}

InitRank ==
    /\ raw = <<>>
    /\ cache = NoCache
    /\ df = <<>>
    /\ countries = {}
    /\ year_range = <<0, 0>>
    /\ top_n \in MinTopN..MaxTopN
    /\ filtered = <<>>
    /\ cagr_df \in CagrFrames
    /\ avg_cagr = MeanNaN
    /\ latest_year = NaN
    /\ map_df = <<>>
    /\ top_cagr = <<>>
    /\ error = ""
    /\ pc = "rank"
    /\ sort_impl \in {"stable", "unstable"}
    /\ prev = NoRun

NextRank == Rank

SpecRank == InitRank /\ [][NextRank]_vars

(***************************************************************************)
(* Properties of one run up to the CAGR frame (SpecCagr).                  *)
(***************************************************************************)
\* line 47-50 has been executed in this run
FilterDone ==
    \/ pc \in {"cagr", "kpi", "map", "rank", "done"}
    \/ pc = "fault" /\ error = "TypeError"

InSelection(r) ==
    /\ r.Country \in countries
    /\ r.Year \in year_range[1]..year_range[2]

Count(s, r) == Cardinality({i \in 1..Len(s) : s[i] = r})

RECURSIVE IsSubseq(_, _)
IsSubseq(s, t) ==
    IF s = <<>> THEN TRUE
    ELSE IF t = <<>> THEN FALSE
    ELSE IF Head(s) = Head(t) THEN IsSubseq(Tail(s), Tail(t))
    ELSE IsSubseq(s, Tail(t))

\* C2: the Range Filter returns exactly the observations whose country is in
\* the set and whose year lies in [min, max] inclusive, in their input order;
\* with an empty country set or an inverted range the result is the empty
\* sequence, and the filter raises no error.
C2_RangeFilterExact ==
    FilterDone =>
        /\ IsSubseq(filtered, df)
        /\ \A i \in 1..Len(df) :
              Count(filtered, df[i]) =
                  IF InSelection(df[i]) THEN Count(df, df[i]) ELSE 0
        /\ (countries = {} \/ year_range[1] > year_range[2]) => filtered = <<>>
        /\ pc = "cagr" => error = ""

\* two rows kept in order, one of them on the lower edge of the range, and a
\* row of a selected country dropped for its year
C2_Witness ==
    /\ pc = "cagr"
    /\ Len(filtered) >= 2
    /\ \E i \in 1..Len(filtered) : filtered[i].Year = year_range[1]
    /\ \E i \in 1..Len(df) :
          df[i].Country \in countries /\ df[i].Year > year_range[2]

\* the filtered rows of country c, as indices into filtered
RowsOf(c) == {i \in 1..Len(filtered) : filtered[i].Country = c}

FirstYear(c) == SetMin({filtered[i].Year : i \in RowsOf(c)})

LastYear(c) == SetMax({filtered[i].Year : i \in RowsOf(c)})

\* the value of the earliest observation of c (the first of them in the
\* frame when the year occurs twice)
FirstValue(c) ==
    filtered[SetMin({i \in RowsOf(c) : filtered[i].Year = FirstYear(c)})]
        .GDP_per_capita_USD

InCagr(c) == \E i \in 1..Len(cagr_df) : cagr_df[i].Country = c

\* C1: a country with at least one filtered row appears in the CAGR output
\* if and only if span = last.year - first.year > 0 and first.value > 0;
\* otherwise it is absent, not present with a zero or undefined value.
C1_CagrPresentIffValid ==
    pc = "kpi" =>
        /\ \A c \in Countries :
              RowsOf(c) # {} =>
                  (InCagr(c) <=>
                      (LastYear(c) - FirstYear(c) > 0 /\ FirstValue(c) > 0))
        /\ \A i \in 1..Len(cagr_df) :
              /\ cagr_df[i].CAGR.k = "num"
              /\ RowsOf(cagr_df[i].Country) # {}
              /\ \A j \in 1..Len(cagr_df) :
                    cagr_df[j].Country = cagr_df[i].Country => j = i

\* one country in the output, and one with a single observation left out
C1_Witness ==
    /\ pc = "kpi"
    /\ \E c \in Countries : InCagr(c)
    /\ \E c \in Countries : Cardinality(RowsOf(c)) = 1 /\ ~InCagr(c)

\* the rows of df inside the window of the Selection, for country c
Window(c) ==
    {j \in 1..Len(df) :
        /\ df[j].Country = c
        /\ c \in countries
        /\ year_range[1] <= df[j].Year
        /\ df[j].Year <= year_range[2]}

WinFirst(c) ==
    LET y == SetMin({df[j].Year : j \in Window(c)})
    IN  df[SetMin({j \in Window(c) : df[j].Year = y})]

WinLast(c) ==
    LET y == SetMax({df[j].Year : j \in Window(c)})
    IN  df[SetMax({j \in Window(c) : df[j].Year = y})]

\* C10: first is the country's row with the smallest year and last its row
\* with the largest year inside the window, and presence and cagr are a
\* function of (first.year, first.value, last.year, last.value) alone:
\* neither the rows between them nor the rows outside the window count.
C10_CagrFromEndpointsOnly ==
    pc = "kpi" =>
        \A c \in Countries :
            Window(c) # {} =>
                LET f == WinFirst(c)
                    l == WinLast(c)
                    valid == l.Year - f.Year > 0 /\ f.GDP_per_capita_USD > 0
                IN  /\ InCagr(c) <=> valid
                    /\ \A i \in 1..Len(cagr_df) :
                          cagr_df[i].Country = c =>
                              /\ cagr_df[i].CAGR.k = "num"
                              /\ cagr_df[i].CAGR.years = l.Year - f.Year
                              /\ CagrEq(cagr_df[i].CAGR,
                                        CagrNum(l.GDP_per_capita_USD,
                                                f.GDP_per_capita_USD,
                                                l.Year - f.Year))

\* a country in the output with three observations in the window, the middle
\* one differing in value from the last
C10_Witness ==
    /\ pc = "kpi"
    /\ \E c \in Countries :
          /\ InCagr(c)
          /\ Cardinality(Window(c)) = 3
          /\ \E j \in Window(c) :
                /\ df[j].Year > WinFirst(c).Year
                /\ df[j].Year < WinLast(c).Year
                /\ df[j].GDP_per_capita_USD # WinLast(c).GDP_per_capita_USD

(***************************************************************************)
(* Properties of the loader (SpecLoad).                                    *)
(***************************************************************************)
Loaded == pc = "sidebar"

SameKey(r, t) == r.Country = t.Country /\ r.Year = t.Year

\* the rows of the file with every field present and an integer year
WellFormed(r) == NoNull(r) /\ r.Year.k = "int"

\* the value of the first well-formed row of the file for (c, y)
FirstInFile(c, y) ==
    raw[SetMin({j \in 1..Len(raw) :
                    /\ WellFormed(raw[j])
                    /\ raw[j].Country = c
                    /\ raw[j].Year.v = y})].GDP_per_capita_USD.v

\* C3: every (country, year) pair occurs at most once in the Loader output:
\* of several clean rows with the same pair the first in input order is kept,
\* and each country's years are strictly ascending.
C3_LoaderKeepsFirstOfPair ==
    Loaded =>
        /\ \A i, j \in 1..Len(df) : SameKey(df[i], df[j]) => i = j
        /\ \A i \in 1..(Len(df) - 1) :
              df[i].Country = df[i + 1].Country => df[i].Year < df[i + 1].Year
        /\ \A i \in 1..Len(df) :
              (\A j \in 1..Len(raw) : WellFormed(raw[j])) =>
                  df[i].GDP_per_capita_USD = FirstInFile(df[i].Country, df[i].Year)

\* C4: row i > 0 of a country gets (value[i] - value[i-1]) / value[i-1] * 100
\* when value[i-1] != 0; the first row of each country gets an undefined
\* growth, and so does every row whose preceding value is 0 (not infinite).
\* Stated for the files without a repeated (country, year) pair, so that it
\* does not rest on C3.
C4_GrowthUndefinedAfterZero ==
    (Loaded /\ \A i, j \in 1..Len(df) : SameKey(df[i], df[j]) => i = j) =>
        \A i \in 1..Len(df) :
            IF i = 1 \/ df[i - 1].Country # df[i].Country
            THEN df[i].YoY_Growth.k = "nan"
            ELSE LET before == df[i - 1].GDP_per_capita_USD
                     now == df[i].GDP_per_capita_USD
                 IN  IF before = 0
                     THEN df[i].YoY_Growth.k = "nan"
                     ELSE NumEq(df[i].YoY_Growth, Num((now - before) * 100, before))

\* C7: loading a file with at least one well-formed row never raises: every
\* row with a null field or a year that is no integer is dropped, and the
\* output is exactly the well-formed rows.
C7_LoadDropsMalformedRows ==
    (pc # "load" /\ \E j \in 1..Len(raw) : WellFormed(raw[j])) =>
        /\ pc # "fault"
        /\ error = ""
        /\ Len(df) = Cardinality({j \in 1..Len(raw) : WellFormed(raw[j])})
        /\ \A j \in 1..Len(raw) :
              WellFormed(raw[j]) =>
                  \E i \in 1..Len(df) :
                      /\ df[i].Country = raw[j].Country
                      /\ df[i].Year = raw[j].Year.v
                      /\ df[i].GDP_per_capita_USD = raw[j].GDP_per_capita_USD.v

(***************************************************************************)
(* Properties of the snapshot (SpecSnap).                                  *)
(***************************************************************************)
IsLatest(r) == \A j \in 1..Len(filtered) : filtered[j].Year <= r.Year

\* C8: the snapshot is exactly the filtered rows whose year equals the
\* maximum year among the filtered rows (a country with no row at that year
\* contributes nothing), and it is empty when the filtered sequence is empty.
C8_SnapshotIsLatestYearRows ==
    pc = "rank" =>
        /\ IsSubseq(map_df, filtered)
        /\ \A i \in 1..Len(filtered) :
              Count(map_df, filtered[i]) =
                  IF IsLatest(filtered[i]) THEN Count(filtered, filtered[i]) ELSE 0
        /\ filtered = <<>> => map_df = <<>> /\ latest_year.k = "nan"
        /\ filtered # <<>> => map_df # <<>>

\* a snapshot with a row, and a country of the filtered rows without one
C8_Witness ==
    /\ pc = "rank"
    /\ map_df # <<>>
    /\ \E i \in 1..Len(filtered) :
          \A j \in 1..Len(map_df) : map_df[j].Country # filtered[i].Country

(***************************************************************************)
(* Properties of the ranking (SpecRank).                                   *)
(***************************************************************************)
\* the position of country c in the frame s
PosIn(s, c) == CHOOSE i \in 1..Len(s) : s[i].Country = c

C6_EmptySelectionCompletes ==
    (FilterDone /\ filtered = <<>>) =>
        /\ pc # "fault"
        /\ pc = "done" =>
              /\ cagr_df = <<>>
              /\ map_df = <<>>
              /\ top_cagr = <<>>
              /\ avg_cagr.k = "nan"

SameSelection ==
    /\ countries = prev.countries
    /\ year_range = prev.year_range
    /\ top_n = prev.top_n

\* C9: across runs the loaded and annotated dataset is never modified by the
\* filter, aggregate, ranking or snapshot stages, and the outputs of a run
\* depend only on that dataset and the run's own Selection: a Selection run
\* again after other runs yields the same outputs.
C9_RunsShareOnlyTheDataset ==
    prev.valid =>
        /\ cache.hit /\ cache.df = prev.df
        /\ pc # "load" => df = prev.df
        /\ (pc = "done" /\ SameSelection) =>
              /\ filtered = prev.filtered
              /\ cagr_df = prev.cagr_df
              /\ avg_cagr = prev.avg_cagr
              /\ latest_year = prev.latest_year
              /\ map_df = prev.map_df
              /\ top_cagr = prev.top_cagr

\* a later run with the Selection of the remembered one, complete, with rows
\* filtered away and a ranking of two countries of equal growth
C9_Witness ==
    /\ prev.valid
    /\ pc = "done"
    /\ SameSelection
    /\ Len(filtered) < Len(df)
    /\ Len(top_cagr) = 2
    /\ CagrEq(top_cagr[1].CAGR, top_cagr[2].CAGR)

====
